---- MODULE Spec2Model ----
(***************************************************************************)
(* Model of the OpenClaw container manager (src/manager/app.py).           *)
(*                                                                         *)
(* The manager's workers serve HTTP requests against two shared, external  *)
(* resources: the container runtime (containers, one bridge network) and   *)
(* the host directory tree under DATA_DIR.  A handler is a straight-line   *)
(* sequence of runtime calls and file-system calls, one step of the model  *)
(* each.  A worker is one server process of the app; the source takes no   *)
(* lock, in the process or on the host, so the calls of two workers        *)
(* interleave freely (only inside one event loop does an async handler     *)
(* that never awaits run to its end undisturbed).  Every runtime or        *)
(* file-system call may raise (engine unreachable, disk full), which ends  *)
(* the handler with an unhandled exception (HTTP 500).                     *)
(***************************************************************************)
EXTENDS Integers, Sequences, FiniteSets, TLC

\* ---------------------------------------------------------------- bounds
NumWorkers == 2          \* manager workers serving requests concurrently
NumTenants == 1          \* business ids 1..NumTenants
NumNeighbours == 2       \* tenants sharing one runtime and one DATA_DIR
MaxBusinessId == 11      \* business ids -1..MaxBusinessId are named
MaxNamed == 2            \* tenants holding a container or a directory at once

Workers == 1..NumWorkers
Ids     == 1..NumTenants

\* ------------------------------------------------------------- constants
NETWORK_NAME  == "openclaw-net"
MANAGER_TOKEN == "manager-token"
SkillContent  == "SKILL"         \* body text returned by _load_skill_content

\* ------------------------------------------------------ request payloads
\* telegram_user_id is a str field: a sequence of characters.
Digits == <<"0", "1", "2", "3", "4", "5", "6", "7", "8", "9">>

DigitVal(c) == (CHOOSE i \in 1..10 : Digits[i] = c) - 1

IsDigit(c) == \E i \in 1..10 : Digits[i] = c

\* int(s) raises ValueError unless s is a non-empty run of digits.
IntParses(s) == Len(s) > 0 /\ \A i \in 1..Len(s) : IsDigit(s[i])

RECURSIVE IntOf(_)
IntOf(s) == IF Len(s) = 0 THEN 0
            ELSE 10 * IntOf(SubSeq(s, 1, Len(s) - 1)) + DigitVal(s[Len(s)])

\* The decimal digits of a natural number, without leading zeros.
RECURSIVE Decimal(_)
Decimal(n) == IF n < 10 THEN <<Digits[n + 1]>>
              ELSE Append(Decimal(n \div 10), Digits[(n % 10) + 1])

\* An int as format() and json.dumps write it.
Str(n) == IF n < 0 THEN <<"-">> \o Decimal(0 - n) ELSE Decimal(n)

\* The request bodies the workers are driven with.  pydantic (lines 41-47)
\* only checks the field types: any str passes, the empty one included.
Payloads ==
  { [business_name |-> "Acme Flowers", telegram_bot_token |-> "T",
     telegram_user_id |-> <<"9", "9">>, api_key |-> "K",
     flyapp_api_url |-> "https://api.acme/"],
    [business_name |-> "Bloom", telegram_bot_token |-> "T2",
     telegram_user_id |-> <<"0", "7">>, api_key |-> "K2",
     flyapp_api_url |-> "https://api.bloom/"],
    [business_name |-> "", telegram_bot_token |-> "T",
     telegram_user_id |-> <<"9", "9">>, api_key |-> "K",
     flyapp_api_url |-> "https://api.acme/"],
    [business_name |-> "Acme Flowers", telegram_bot_token |-> "T",
     telegram_user_id |-> <<"x", "9">>, api_key |-> "K",
     flyapp_api_url |-> "https://api.acme/"] }

CreateContainerRequest ==
  { [business_id |-> i, body |-> b] : i \in Ids, b \in Payloads }

\* --------------------------------------------------------------- helpers
\* A name built from the last digit of the id only.
LastDigitName(business_id) ==
  <<"openclaw-client-">> \o Decimal((IF business_id < 0 THEN 0 - business_id
                                     ELSE business_id) % 10)

_container_name(business_id) == <<"openclaw-client-">> \o Str(business_id)

\* A str as json.dumps writes it (no character here needs escaping).
JsonString(s) == <<"\"">> \o s \o <<"\"">>

\* A config that keeps the user id as the string it was given.
ConfigWithStringId(req) ==
  [gateway_token |-> MANAGER_TOKEN,
   botToken      |-> req.body.telegram_bot_token,
   dmPolicy      |-> "allowlist",
   allowFrom     |-> <<JsonString(req.body.telegram_user_id)>>]

\* The fields of the config document that depend on the request, as
\* json.dumps writes them: the allowlist entry is a number.
_build_config(req) ==
  [gateway_token |-> MANAGER_TOKEN,
   botToken      |-> req.body.telegram_bot_token,
   dmPolicy      |-> "allowlist",
   allowFrom     |-> <<Str(IntOf(req.body.telegram_user_id))>>]

\* SOUL.md: the business name is interpolated twice.
SoulText(req) ==
  [shop |-> req.body.business_name, only_discuss |-> req.body.business_name]

\* TOOLS.md: key and base url, then the skill text.
ToolsText(req) ==
  [key |-> req.body.api_key, base |-> req.body.flyapp_api_url,
   skill |-> SkillContent]

\* ----------------------------------------------------------- file system
NoFile   == [kind |-> "absent"]      \* no entry at the path
Partial  == [kind |-> "truncated"]   \* write_text raised after open(..., "w")
MountDir == [kind |-> "directory"]   \* made by the engine for a bind source

File(text) == [kind |-> "file", text |-> text]

\* The tree under DATA_DIR/<name>.
EmptyTree ==
  [dir |-> FALSE, config_dir |-> FALSE, config |-> NoFile,
   workspace_dir |-> FALSE, soul |-> NoFile, tools |-> NoFile,
   session |-> FALSE]

VARIABLES
  pc,          \* pc[w]: the position of worker w in its handler
  call,        \* call[w]: the request worker w is serving
  trace,       \* trace[w]: what the handler has found and done so far
  failedAt,    \* failedAt[w]: the step that raised, and the exception
  result,      \* result[w]: the status field of the response
  containers,  \* the runtime's containers
  fs,          \* fs[i]: the tree under DATA_DIR/_container_name(i)
  network,     \* TRUE when the runtime has a network NETWORK_NAME
  healthy      \* healthy[w]: the healthy field of a health response

vars == <<pc, call, trace, failedAt, result, containers, fs, network,
          healthy>>

NoCall == [op |-> "none"]

NoFailure == [step |-> "none", exc |-> "none"]

Init ==
  /\ pc = [w \in Workers |-> "idle"]
  /\ call = [w \in Workers |-> NoCall]
  /\ trace = [w \in Workers |-> <<>>]
  /\ failedAt = [w \in Workers |-> NoFailure]
  /\ result = [w \in Workers |-> "none"]
  /\ containers = {}
  /\ fs = [i \in Ids |-> EmptyTree]
  /\ network = FALSE
  /\ healthy = [w \in Workers |-> FALSE]

\* --------------------------------------------------------------- runtime
Named(name) == { c \in containers : c.name = name }

\* containers.get(name) finds a container, or raises NotFound.
NameFree(name) == Named(name) = {}

\* An engine that does not enforce unique container names.
NameConflictUnchecked(name) == FALSE

\* containers.run(name=name) is refused by the engine (409 Conflict) while a
\* container of that name exists.
NameConflict(name) == Named(name) # {}

\* A handler call that raised: the exception is not caught (HTTP 500).
Raise(w, step, exc) ==
  /\ pc' = [pc EXCEPT ![w] = "failed"]
  /\ failedAt' = [failedAt EXCEPT ![w] = [step |-> step, exc |-> exc]]

Goto(w, label) ==
  /\ pc' = [pc EXCEPT ![w] = label]
  /\ UNCHANGED failedAt

Log(w, what) == trace' = [trace EXCEPT ![w] = Append(@, what)]

Tenant(w) == call[w].req.business_id

\* ------------------------------------------------------ create_container
\* POST /containers: the body has passed the pydantic type check.
StartCreate(w, req) ==
  /\ pc[w] = "idle"
  /\ call' = [call EXCEPT ![w] = [op |-> "create", req |-> req]]
  /\ Goto(w, "c_get")
  /\ UNCHANGED <<trace, result, containers, fs, network, healthy>>

\* The reuse-if-running policy in place of force-recreate.
CreateGetReuse(w) ==
  /\ pc[w] = "c_get"
  /\ \/ /\ \E c \in Named(_container_name(Tenant(w))) : c.status = "running"
        /\ Log(w, "found")
        /\ Goto(w, "done")
        /\ result' = [result EXCEPT ![w] = "running"]
     \/ /\ ~NameFree(_container_name(Tenant(w)))
        /\ \A c \in Named(_container_name(Tenant(w))) : c.status # "running"
        /\ Log(w, "found")
        /\ Goto(w, "c_remove")
        /\ UNCHANGED result
     \/ /\ NameFree(_container_name(Tenant(w)))
        /\ Goto(w, "c_wipe")
        /\ UNCHANGED <<trace, result>>
     \/ /\ Raise(w, "get", "APIError")
        /\ UNCHANGED <<trace, result>>
  /\ UNCHANGED <<call, containers, fs, network, healthy>>

\* existing = client.containers.get(name)
CreateGet(w) ==
  /\ pc[w] = "c_get"
  /\ \/ /\ ~NameFree(_container_name(Tenant(w)))
        /\ Log(w, "found")
        /\ Goto(w, "c_remove")
     \/ /\ NameFree(_container_name(Tenant(w)))      \* NotFound: pass
        /\ Goto(w, "c_wipe")
        /\ UNCHANGED trace
     \/ /\ Raise(w, "get", "APIError")
        /\ UNCHANGED trace
  /\ UNCHANGED <<call, result, containers, fs, network, healthy>>

\* A removal whose NotFound is not caught.
CreateRemoveNotFoundUncaught(w) ==
  /\ pc[w] = "c_remove"
  /\ \/ /\ ~NameFree(_container_name(Tenant(w)))
        /\ containers' = containers \ Named(_container_name(Tenant(w)))
        /\ Log(w, "remove")
        /\ Goto(w, "c_wipe")
     \/ /\ NameFree(_container_name(Tenant(w)))
        /\ Raise(w, "remove", "NotFound")
        /\ UNCHANGED <<containers, trace>>
     \/ /\ Raise(w, "remove", "APIError")
        /\ UNCHANGED <<containers, trace>>
  /\ UNCHANGED <<call, result, fs, network, healthy>>

\* A removal without force: the engine refuses to remove a running
\* container.
CreateRemoveUnforced(w) ==
  /\ pc[w] = "c_remove"
  /\ \/ /\ \A c \in Named(_container_name(Tenant(w))) : c.status # "running"
        /\ containers' = containers \ Named(_container_name(Tenant(w)))
        /\ Log(w, "remove")
        /\ Goto(w, "c_wipe")
     \/ /\ \E c \in Named(_container_name(Tenant(w))) : c.status = "running"
        /\ Raise(w, "remove", "Conflict")
        /\ UNCHANGED <<containers, trace>>
     \/ /\ Raise(w, "remove", "APIError")
        /\ UNCHANGED <<containers, trace>>
  /\ UNCHANGED <<call, result, fs, network, healthy>>

\* existing.remove(force=True); NotFound is caught and passed over.
CreateRemove(w) ==
  /\ pc[w] = "c_remove"
  /\ \/ /\ containers' = containers \ Named(_container_name(Tenant(w)))
        /\ Log(w, "remove")
        /\ Goto(w, "c_wipe")
     \/ /\ Raise(w, "remove", "APIError")
        /\ UNCHANGED <<containers, trace>>
  /\ UNCHANGED <<call, result, fs, network, healthy>>

\* A wipe of all of DATA_DIR instead of the tenant's directory.
CreateWipeDataDir(w) ==
  /\ pc[w] = "c_wipe"
  /\ \/ /\ fs' = [i \in DOMAIN fs |-> EmptyTree]
        /\ Log(w, "rmtree")
        /\ Goto(w, "c_mkdir")
     \/ /\ Raise(w, "rmtree", "OSError")
        /\ UNCHANGED <<fs, trace>>
  /\ UNCHANGED <<call, result, containers, network, healthy>>

\* if container_dir.exists(): shutil.rmtree(container_dir)
CreateWipe(w) ==
  /\ pc[w] = "c_wipe"
  /\ \/ /\ fs[Tenant(w)].dir
        /\ fs' = [fs EXCEPT ![Tenant(w)] = EmptyTree]
        /\ Log(w, "rmtree")
        /\ Goto(w, "c_mkdir")
     \/ /\ ~fs[Tenant(w)].dir
        /\ Goto(w, "c_mkdir")
        /\ UNCHANGED <<fs, trace>>
     \/ /\ fs[Tenant(w)].dir
        /\ Raise(w, "rmtree", "OSError")
        /\ UNCHANGED <<fs, trace>>
  /\ UNCHANGED <<call, result, containers, network, healthy>>

\* config_dir.mkdir(parents=True, exist_ok=True)
CreateMkdir(w) ==
  /\ pc[w] = "c_mkdir"
  /\ \/ /\ fs' = [fs EXCEPT ![Tenant(w)].dir = TRUE,
                            ![Tenant(w)].config_dir = TRUE]
        /\ Log(w, "mkdir")
        /\ Goto(w, "c_config")
     \/ /\ Raise(w, "mkdir", "OSError")
        /\ UNCHANGED <<fs, trace>>
  /\ UNCHANGED <<call, result, containers, network, healthy>>

\* config = _build_config(req); (config_dir / "openclaw.json").write_text(...)
\* int(req.telegram_user_id) raises ValueError on a non-numeric string;
\* write_text needs config/ to be there and truncates before it writes.
CreateWriteConfig(w) ==
  /\ pc[w] = "c_config"
  /\ \/ /\ ~IntParses(call[w].req.body.telegram_user_id)
        /\ Raise(w, "build_config", "ValueError")
        /\ UNCHANGED <<fs, trace>>
     \/ /\ IntParses(call[w].req.body.telegram_user_id)
        /\ fs[Tenant(w)].config_dir
        /\ fs[Tenant(w)].config # MountDir
        /\ fs' = [fs EXCEPT ![Tenant(w)].config = File(_build_config(call[w].req))]
        /\ Log(w, "write_config")
        /\ Goto(w, "c_workspace")
     \/ /\ IntParses(call[w].req.body.telegram_user_id)
        /\ fs[Tenant(w)].config_dir
        /\ fs[Tenant(w)].config # MountDir
        /\ fs' = [fs EXCEPT ![Tenant(w)].config = Partial]
        /\ Log(w, "write_config_truncated")
        /\ Raise(w, "write_config", "OSError")
     \/ /\ IntParses(call[w].req.body.telegram_user_id)
        /\ ~fs[Tenant(w)].config_dir
        /\ Raise(w, "write_config", "FileNotFoundError")
        /\ UNCHANGED <<fs, trace>>
     \/ /\ IntParses(call[w].req.body.telegram_user_id)
        /\ fs[Tenant(w)].config = MountDir
        /\ Raise(w, "write_config", "IsADirectoryError")
        /\ UNCHANGED <<fs, trace>>
  /\ UNCHANGED <<call, result, containers, network, healthy>>

\* _write_workspace_files: workspace_dir.mkdir(parents=True, exist_ok=True),
\* then _load_skill_content() (reads the shared skill file only).
WorkspaceMkdir(w) ==
  /\ pc[w] = "c_workspace"
  /\ \/ /\ fs' = [fs EXCEPT ![Tenant(w)].dir = TRUE,
                            ![Tenant(w)].workspace_dir = TRUE]
        /\ Log(w, "mkdir_workspace")
        /\ Goto(w, "c_soul")
     \/ /\ Raise(w, "mkdir_workspace", "OSError")
        /\ UNCHANGED <<fs, trace>>
  /\ UNCHANGED <<call, result, containers, network, healthy>>

\* (workspace_dir / "SOUL.md").write_text(soul)
WriteSoul(w) ==
  /\ pc[w] = "c_soul"
  /\ \/ /\ fs[Tenant(w)].workspace_dir
        /\ fs' = [fs EXCEPT ![Tenant(w)].soul = File(SoulText(call[w].req))]
        /\ Log(w, "write_soul")
        /\ Goto(w, "c_tools")
     \/ /\ fs[Tenant(w)].workspace_dir
        /\ fs' = [fs EXCEPT ![Tenant(w)].soul = Partial]
        /\ Log(w, "write_soul_truncated")
        /\ Raise(w, "write_soul", "OSError")
     \/ /\ ~fs[Tenant(w)].workspace_dir
        /\ Raise(w, "write_soul", "FileNotFoundError")
        /\ UNCHANGED <<fs, trace>>
  /\ UNCHANGED <<call, result, containers, network, healthy>>

\* A failed write of TOOLS.md that is logged and passed over.
WriteToolsSwallowed(w) ==
  /\ pc[w] = "c_tools"
  /\ \/ /\ fs[Tenant(w)].workspace_dir
        /\ fs' = [fs EXCEPT ![Tenant(w)].tools = File(ToolsText(call[w].req))]
        /\ Log(w, "write_tools")
        /\ Goto(w, "c_net")
     \/ /\ fs[Tenant(w)].workspace_dir
        /\ fs' = [fs EXCEPT ![Tenant(w)].tools = Partial]
        /\ Log(w, "write_tools_truncated")
        /\ Goto(w, "c_net")
     \/ /\ ~fs[Tenant(w)].workspace_dir
        /\ Goto(w, "c_net")
        /\ UNCHANGED <<fs, trace>>
  /\ UNCHANGED <<call, result, containers, network, healthy>>

\* (workspace_dir / "TOOLS.md").write_text(tools), then chown -R with
\* check=False, which cannot raise and changes no content.
WriteTools(w) ==
  /\ pc[w] = "c_tools"
  /\ \/ /\ fs[Tenant(w)].workspace_dir
        /\ fs' = [fs EXCEPT ![Tenant(w)].tools = File(ToolsText(call[w].req))]
        /\ Log(w, "write_tools")
        /\ Goto(w, "c_net")
     \/ /\ fs[Tenant(w)].workspace_dir
        /\ fs' = [fs EXCEPT ![Tenant(w)].tools = Partial]
        /\ Log(w, "write_tools_truncated")
        /\ Raise(w, "write_tools", "OSError")
     \/ /\ ~fs[Tenant(w)].workspace_dir
        /\ Raise(w, "write_tools", "FileNotFoundError")
        /\ UNCHANGED <<fs, trace>>
  /\ UNCHANGED <<call, result, containers, network, healthy>>

\* A lookup whose errors are passed over like NotFound is not.
EnsureNetworkGetLenient(w) ==
  /\ pc[w] = "c_net"
  /\ \/ /\ network
        /\ Goto(w, "c_run")
     \/ /\ ~network
        /\ Goto(w, "c_net_create")
     \/ Goto(w, "c_run")
  /\ UNCHANGED <<call, trace, result, containers, fs, network, healthy>>

\* _ensure_network: client.networks.get(NETWORK_NAME)
EnsureNetworkGet(w) ==
  /\ pc[w] = "c_net"
  /\ \/ /\ network
        /\ Goto(w, "c_run")
     \/ /\ ~network                                  \* NotFound
        /\ Goto(w, "c_net_create")
     \/ Raise(w, "network_get", "APIError")
  /\ UNCHANGED <<call, trace, result, containers, fs, network, healthy>>

\* _ensure_network: client.networks.create(NETWORK_NAME, driver="bridge");
\* the engine refuses a second network of the name, and nothing catches it.
EnsureNetworkCreate(w) ==
  /\ pc[w] = "c_net_create"
  /\ \/ /\ ~network
        /\ network' = TRUE
        /\ Log(w, "network_create")
        /\ Goto(w, "c_run")
     \/ /\ network
        /\ Raise(w, "network_create", "Conflict")
        /\ UNCHANGED <<network, trace>>
     \/ /\ ~network
        /\ Raise(w, "network_create", "APIError")
        /\ UNCHANGED <<network, trace>>
  /\ UNCHANGED <<call, result, containers, fs, healthy>>

\* A bind mount whose host path is missing is created as a directory by
\* the engine when the container is created.
BindSources(tree) ==
  [tree EXCEPT !.dir = TRUE, !.config_dir = TRUE, !.workspace_dir = TRUE,
               !.config = IF tree.config = NoFile THEN MountDir ELSE @]

\* container = client.containers.run(..., name=name, detach=True, ...);
\* return ContainerResponse(container_id=name, status="running")
CreateRun(w) ==
  /\ pc[w] = "c_run"
  /\ \/ /\ ~NameConflict(_container_name(Tenant(w)))
        /\ containers' = containers \cup
             {[name |-> _container_name(Tenant(w)), status |-> "running",
               by |-> w]}
        /\ fs' = [fs EXCEPT ![Tenant(w)] = BindSources(@)]
        /\ Log(w, "run")
        /\ Goto(w, "done")
        /\ result' = [result EXCEPT ![w] = "running"]
     \/ /\ ~NameConflict(_container_name(Tenant(w)))      \* created, start raised
        /\ containers' = containers \cup
             {[name |-> _container_name(Tenant(w)), status |-> "created",
               by |-> w]}
        /\ fs' = [fs EXCEPT ![Tenant(w)] = BindSources(@)]
        /\ Log(w, "run")
        /\ Raise(w, "run", "APIError")
        /\ UNCHANGED result
     \/ /\ NameConflict(_container_name(Tenant(w)))  \* 409 Conflict
        /\ Log(w, "run")
        /\ Raise(w, "run", "Conflict")
        /\ UNCHANGED <<containers, fs, result>>
     \/ /\ Log(w, "run")                             \* engine unreachable
        /\ Raise(w, "run", "APIError")
        /\ UNCHANGED <<containers, fs, result>>
  /\ UNCHANGED <<call, network, healthy>>

\* ------------------------------------------------------ delete_container
\* DELETE /containers/{business_id}?cleanup=...
StartDelete(w, business_id, cleanup) ==
  /\ pc[w] = "idle"
  /\ call' = [call EXCEPT ![w] =
                [op |-> "delete", req |-> [business_id |-> business_id],
                 cleanup |-> cleanup]]
  /\ Goto(w, "d_get")
  /\ UNCHANGED <<trace, result, containers, fs, network, healthy>>

\* The cleanup done although the container was not found.
DeleteGetCleanupAnyway(w) ==
  /\ pc[w] = "d_get"
  /\ \/ /\ ~NameFree(_container_name(Tenant(w)))
        /\ Log(w, "found")
        /\ Goto(w, "d_remove")
     \/ /\ NameFree(_container_name(Tenant(w)))
        /\ Goto(w, IF call[w].cleanup THEN "d_cleanup" ELSE "not_found")
        /\ UNCHANGED trace
     \/ /\ Raise(w, "get", "APIError")
        /\ UNCHANGED trace
  /\ UNCHANGED <<call, result, containers, fs, network, healthy>>

\* container = client.containers.get(name); NotFound becomes a 404.
DeleteGet(w) ==
  /\ pc[w] = "d_get"
  /\ \/ /\ ~NameFree(_container_name(Tenant(w)))
        /\ Log(w, "found")
        /\ Goto(w, "d_remove")
     \/ /\ NameFree(_container_name(Tenant(w)))
        /\ Goto(w, "not_found")
        /\ UNCHANGED trace
     \/ /\ Raise(w, "get", "APIError")
        /\ UNCHANGED trace
  /\ UNCHANGED <<call, result, containers, fs, network, healthy>>

\* The directory cleanup done whatever the cleanup flag says.
DeleteRemoveAlwaysCleanup(w) ==
  /\ pc[w] = "d_remove"
  /\ \/ /\ ~NameFree(_container_name(Tenant(w)))
        /\ containers' = containers \ Named(_container_name(Tenant(w)))
        /\ Log(w, "remove")
        /\ Goto(w, "d_cleanup")
     \/ /\ NameFree(_container_name(Tenant(w)))
        /\ Log(w, "remove")
        /\ Goto(w, "not_found")
        /\ UNCHANGED containers
     \/ /\ Raise(w, "remove", "APIError")
        /\ UNCHANGED <<containers, trace>>
  /\ UNCHANGED <<call, result, fs, network, healthy>>

\* container.remove(force=True); NotFound becomes a 404.  Without cleanup
\* the handler returns status "removed" right after.
DeleteRemove(w) ==
  /\ pc[w] = "d_remove"
  /\ \/ /\ ~NameFree(_container_name(Tenant(w)))
        /\ containers' = containers \ Named(_container_name(Tenant(w)))
        /\ Log(w, "remove")
        /\ IF call[w].cleanup
             THEN Goto(w, "d_cleanup") /\ UNCHANGED result
             ELSE Goto(w, "done") /\ result' = [result EXCEPT ![w] = "removed"]
     \/ /\ NameFree(_container_name(Tenant(w)))
        /\ Log(w, "remove")
        /\ Goto(w, "not_found")
        /\ UNCHANGED <<containers, result>>
     \/ /\ Raise(w, "remove", "APIError")
        /\ UNCHANGED <<containers, trace, result>>
  /\ UNCHANGED <<call, fs, network, healthy>>

\* if cleanup: if container_dir.exists(): shutil.rmtree(container_dir);
\* return ContainerResponse(container_id=name, status="removed")
DeleteCleanup(w) ==
  /\ pc[w] = "d_cleanup"
  /\ \/ /\ fs[Tenant(w)].dir
        /\ fs' = [fs EXCEPT ![Tenant(w)] = EmptyTree]
        /\ Log(w, "rmtree")
        /\ Goto(w, "done")
        /\ result' = [result EXCEPT ![w] = "removed"]
     \/ /\ ~fs[Tenant(w)].dir
        /\ Goto(w, "done")
        /\ result' = [result EXCEPT ![w] = "removed"]
        /\ UNCHANGED <<fs, trace>>
     \/ /\ fs[Tenant(w)].dir
        /\ Raise(w, "rmtree", "OSError")
        /\ UNCHANGED <<fs, trace, result>>
  /\ UNCHANGED <<call, containers, network, healthy>>

\* ---------------------------------------------------------------- health
\* GET /containers/{business_id}/health
StartHealth(w, business_id) ==
  /\ pc[w] = "idle"
  /\ call' = [call EXCEPT ![w] =
       [op |-> "health", req |-> [business_id |-> business_id]]]
  /\ Goto(w, "h_get")
  /\ UNCHANGED <<trace, result, containers, fs, network, healthy>>

\* A health check that reports every status but "exited" as healthy.
HealthyUnlessExited(status) == status # "exited"

\* healthy=container.status == "running"
Healthy(status) == status = "running"

\* A health check that restarts the container it finds stopped.
HealthGetRestarting(w) ==
  /\ pc[w] = "h_get"
  /\ \/ \E c \in Named(_container_name(Tenant(w))) :
          /\ result' = [result EXCEPT ![w] = c.status]
          /\ healthy' = [healthy EXCEPT ![w] = Healthy(c.status)]
          /\ containers' = (containers \ {c}) \cup
               {[c EXCEPT !.status = "running"]}
          /\ Goto(w, "done")
     \/ /\ NameFree(_container_name(Tenant(w)))
        /\ result' = [result EXCEPT ![w] = "not_found"]
        /\ healthy' = [healthy EXCEPT ![w] = FALSE]
        /\ Goto(w, "done")
        /\ UNCHANGED containers
     \/ /\ Raise(w, "get", "APIError")
        /\ UNCHANGED <<result, healthy, containers>>
  /\ UNCHANGED <<call, trace, fs, network>>

\* container = client.containers.get(name); the response echoes its status,
\* and NotFound becomes the status "not_found" of a normal response.
HealthGet(w) ==
  /\ pc[w] = "h_get"
  /\ \/ \E c \in Named(_container_name(Tenant(w))) :
          /\ result' = [result EXCEPT ![w] = c.status]
          /\ healthy' = [healthy EXCEPT ![w] = Healthy(c.status)]
          /\ Goto(w, "done")
     \/ /\ NameFree(_container_name(Tenant(w)))
        /\ result' = [result EXCEPT ![w] = "not_found"]
        /\ healthy' = [healthy EXCEPT ![w] = FALSE]
        /\ Goto(w, "done")
     \/ /\ Raise(w, "get", "APIError")
        /\ UNCHANGED <<result, healthy>>
  /\ UNCHANGED <<call, trace, containers, fs, network>>

\* ------------------------------------------------------------------ logs
\* GET /containers/{business_id}/logs
StartLogs(w, business_id) ==
  /\ pc[w] = "idle"
  /\ call' = [call EXCEPT ![w] =
       [op |-> "logs", req |-> [business_id |-> business_id]]]
  /\ Goto(w, "l_get")
  /\ UNCHANGED <<trace, result, containers, fs, network, healthy>>

\* container = client.containers.get(name); NotFound becomes a 404.
LogsGet(w) ==
  /\ pc[w] = "l_get"
  /\ \/ /\ ~NameFree(_container_name(Tenant(w)))
        /\ Log(w, "found")
        /\ Goto(w, "l_read")
     \/ /\ NameFree(_container_name(Tenant(w)))
        /\ Goto(w, "not_found")
        /\ UNCHANGED trace
     \/ /\ Raise(w, "get", "APIError")
        /\ UNCHANGED trace
  /\ UNCHANGED <<call, result, containers, fs, network, healthy>>

\* container.logs(tail=lines), inside the same try: a container removed
\* since the get makes the engine answer NotFound, which becomes a 404.
LogsRead(w) ==
  /\ pc[w] = "l_read"
  /\ \/ /\ ~NameFree(_container_name(Tenant(w)))
        /\ Log(w, "logs")
        /\ result' = [result EXCEPT ![w] = "logs"]
        /\ Goto(w, "done")
     \/ /\ NameFree(_container_name(Tenant(w)))
        /\ Log(w, "logs")
        /\ Goto(w, "not_found")
        /\ UNCHANGED result
     \/ /\ Raise(w, "logs", "APIError")
        /\ UNCHANGED <<trace, result>>
  /\ UNCHANGED <<call, containers, fs, network, healthy>>

\* The response (2xx, 404 or 500) is sent; the worker takes the next request.
Return(w) ==
  /\ pc[w] \in {"done", "not_found", "failed"}
  /\ pc' = [pc EXCEPT ![w] = "idle"]
  /\ call' = [call EXCEPT ![w] = NoCall]
  /\ trace' = [trace EXCEPT ![w] = <<>>]
  /\ failedAt' = [failedAt EXCEPT ![w] = NoFailure]
  /\ result' = [result EXCEPT ![w] = "none"]
  /\ healthy' = [healthy EXCEPT ![w] = FALSE]
  /\ UNCHANGED <<containers, fs, network>>

\* ------------------------------------------------- the tenant's container
\* The gateway process exits, or the engine restarts it
\* (restart_policy "unless-stopped").
ContainerStatusChange(c) ==
  /\ c \in containers
  /\ c.status \in {"running", "exited"}
  /\ containers' = (containers \ {c}) \cup
       {[c EXCEPT !.status = IF c.status = "running" THEN "exited"
                             ELSE "running"]}
  /\ UNCHANGED <<pc, call, trace, failedAt, result, fs, network, healthy>>

\* The running gateway keeps its session state in the workspace, which is
\* mounted read-write.
ContainerWritesSession(i) ==
  /\ \E c \in Named(_container_name(i)) : c.status = "running"
  /\ fs[i].workspace_dir
  /\ ~fs[i].session
  /\ fs' = [fs EXCEPT ![i].session = TRUE]
  /\ UNCHANGED <<pc, call, trace, failedAt, result, containers, network,
               healthy>>

\* ------------------------------------------------------------------ spec
CreateStep(w) ==
  \/ CreateGet(w) \/ CreateRemove(w) \/ CreateWipe(w) \/ CreateMkdir(w)
  \/ CreateWriteConfig(w) \/ WorkspaceMkdir(w) \/ WriteSoul(w)
  \/ WriteTools(w) \/ EnsureNetworkGet(w) \/ EnsureNetworkCreate(w)
  \/ CreateRun(w)

DeleteStep(w) == DeleteGet(w) \/ DeleteRemove(w) \/ DeleteCleanup(w)

Next ==
  \/ \E w \in Workers, req \in CreateContainerRequest : StartCreate(w, req)
  \/ \E w \in Workers : CreateStep(w)
  \/ \E w \in Workers, i \in Ids, cleanup \in BOOLEAN :
       StartDelete(w, i, cleanup)
  \/ \E w \in Workers : DeleteStep(w)
  \/ \E w \in Workers : Return(w)
  \/ \E c \in containers : ContainerStatusChange(c)
  \/ \E i \in Ids : ContainerWritesSession(i)

Spec == Init /\ [][Next]_vars

\* The same manager, serving health and logs requests as well; the create
\* requests all carry one well-formed body.
ReadRequests ==
  { r \in CreateContainerRequest : r.body.business_name = "Bloom" }

ReadStep(w) == HealthGet(w) \/ LogsGet(w) \/ LogsRead(w)

NextRead ==
  \/ \E w \in Workers, req \in ReadRequests : StartCreate(w, req)
  \/ \E w \in Workers : CreateStep(w)
  \/ \E w \in Workers, i \in Ids, cleanup \in BOOLEAN :
       StartDelete(w, i, cleanup)
  \/ \E w \in Workers : DeleteStep(w)
  \/ \E w \in Workers, i \in Ids : StartHealth(w, i)
  \/ \E w \in Workers, i \in Ids : StartLogs(w, i)
  \/ \E w \in Workers : ReadStep(w)
  \/ \E w \in Workers : Return(w)
  \/ \E c \in containers : ContainerStatusChange(c)
  \/ \E i \in Ids : ContainerWritesSession(i)

SpecRead == Init /\ [][NextRead]_vars

\* The manager with a client that retries a failed Create.  Calls are made
\* one at a time.  An attempt may be struck by an outage of the engine or of
\* the disk at any step; the client then sends the same request again to
\* another worker, and during that retry the outage is over.
RetryRequests ==
  { r \in CreateContainerRequest : IntParses(r.body.telegram_user_id) }

Busy(w) == pc[w] \notin {"idle", "done", "not_found", "failed"}

FailedCreate(w) ==
  /\ call[w].op = "create"
  /\ pc[w] = "failed"
  /\ failedAt[w].exc \in {"APIError", "OSError"}

IsRetry(w) ==
  /\ call[w].op = "create"
  /\ \E v \in Workers \ {w} : FailedCreate(v) /\ call[v].req = call[w].req

NoOutage(w) == failedAt'[w].exc \notin {"APIError", "OSError"}

NextRetry ==
  \/ \E w \in Workers, req \in RetryRequests :
       /\ \A v \in Workers : ~Busy(v) /\ ~FailedCreate(v)
       /\ StartCreate(w, req)
  \/ \E w \in Workers, v \in Workers :
       /\ FailedCreate(v)
       /\ \A u \in Workers : ~Busy(u)
       /\ StartCreate(w, call[v].req)
  \/ \E w \in Workers : CreateStep(w) /\ (IsRetry(w) => NoOutage(w))
  \/ \E w \in Workers, i \in Ids, cleanup \in BOOLEAN :
       /\ \A v \in Workers : ~Busy(v) /\ ~FailedCreate(v)
       /\ StartDelete(w, i, cleanup)
  \/ \E w \in Workers : DeleteStep(w)
  \/ \E w \in Workers : (\A v \in Workers : ~Busy(v)) /\ Return(w)
  \/ \E c \in containers : ContainerStatusChange(c)
  \/ \E i \in Ids : ContainerWritesSession(i)

SpecRetry == Init /\ [][NextRetry]_vars

\* The manager naming the containers and directories of many business ids
\* (business_id is an int: negative and multi-digit ids are accepted).
\* Calls are made one after the other and meet no outage; at most MaxNamed
\* tenants hold a container or a directory at once.
NameIds == -1..MaxBusinessId

NameRequests ==
  { [business_id |-> i, body |-> r.body] : i \in NameIds, r \in ReadRequests }

Touched == { i \in NameIds : fs[i].dir \/ ~NameFree(_container_name(i)) }

InitNames ==
  /\ pc = [w \in Workers |-> "idle"]
  /\ call = [w \in Workers |-> NoCall]
  /\ trace = [w \in Workers |-> <<>>]
  /\ failedAt = [w \in Workers |-> NoFailure]
  /\ result = [w \in Workers |-> "none"]
  /\ containers = {}
  /\ fs = [i \in NameIds |-> EmptyTree]
  /\ network = FALSE
  /\ healthy = [w \in Workers |-> FALSE]

NextNames ==
  \/ \E w \in Workers, req \in NameRequests :
       /\ \A v \in Workers : pc[v] = "idle"
       /\ req.business_id \in Touched \/ Cardinality(Touched) < MaxNamed
       /\ StartCreate(w, req)
  \/ \E w \in Workers : CreateStep(w) /\ pc'[w] # "failed"
  \/ \E w \in Workers, i \in NameIds, cleanup \in BOOLEAN :
       /\ \A v \in Workers : pc[v] = "idle"
       /\ StartDelete(w, i, cleanup)
  \/ \E w \in Workers : DeleteStep(w) /\ pc'[w] # "failed"
  \/ \E w \in Workers : Return(w)

SpecNames == InitNames /\ [][NextNames]_vars

\* The manager serving several tenants: DATA_DIR holds one tree per tenant,
\* the runtime and its network are shared.  Each tenant's requests arrive
\* at one worker, so that all concurrency here is between tenants.
TenantIds == 1..NumNeighbours

Route(i) == ((i - 1) % NumWorkers) + 1

TenantRequests ==
  { [business_id |-> i, body |-> r.body] : i \in TenantIds, r \in ReadRequests }

InitTenants ==
  /\ pc = [w \in Workers |-> "idle"]
  /\ call = [w \in Workers |-> NoCall]
  /\ trace = [w \in Workers |-> <<>>]
  /\ failedAt = [w \in Workers |-> NoFailure]
  /\ result = [w \in Workers |-> "none"]
  /\ containers = {}
  /\ fs = [i \in TenantIds |-> EmptyTree]
  /\ network = FALSE
  /\ healthy = [w \in Workers |-> FALSE]

NextTenants ==
  \/ \E req \in TenantRequests : StartCreate(Route(req.business_id), req)
  \/ \E w \in Workers : CreateStep(w)
  \/ \E i \in TenantIds, cleanup \in BOOLEAN :
       StartDelete(Route(i), i, cleanup)
  \/ \E w \in Workers : DeleteStep(w)
  \/ \E w \in Workers : Return(w)
  \/ \E c \in containers : ContainerStatusChange(c)
  \/ \E i \in TenantIds : ContainerWritesSession(i)

SpecTenants == InitTenants /\ [][NextTenants]_vars

\* ---------------------------------------------------------------- claims
Has(seq, x) == \E k \in 1..Len(seq) : seq[k] = x

Creating(w, i) == call[w].op = "create" /\ call[w].req.business_id = i

Deleting(w, i) == call[w].op = "delete" /\ call[w].req.business_id = i

Finished(w) == pc[w] \in {"done", "not_found", "failed"}

\* The exceptions of an engine or file-system outage, as opposed to those the
\* state of the runtime or of the tree decides.
Outage(w) == failedAt[w].exc \in {"APIError", "OSError"}

Running(i) == \E c \in Named(_container_name(i)) : c.status = "running"

\* Requests whose config document can be built.
Buildable(i) ==
  { r \in CreateContainerRequest :
      r.business_id = i /\ IntParses(r.body.telegram_user_id) }

\* No two written documents of the tree come from different requests.
FromOneRequest(i) ==
  \E r \in Buildable(i) :
    /\ fs[i].config.kind = "file" => fs[i].config = File(_build_config(r))
    /\ fs[i].soul.kind = "file" => fs[i].soul = File(SoulText(r))
    /\ fs[i].tools.kind = "file" => fs[i].tools = File(ToolsText(r))

\* C1: whenever two Create calls for one tenant have both finished (neither
\* cut short by an outage), and whenever a container of the tenant is
\* running, openclaw.json, SOUL.md and TOOLS.md under the tenant's directory
\* come from one and the same request.
C1_NoInterleavedWorkspace ==
  \A i \in Ids :
    ( \/ Running(i)
      \/ \E w1, w2 \in Workers :
           /\ w1 # w2
           /\ Creating(w1, i) /\ Finished(w1) /\ ~Outage(w1)
           /\ Creating(w2, i) /\ Finished(w2) /\ ~Outage(w2) )
    => FromOneRequest(i)

\* A handler is inside its sequence once its inspect has returned and until
\* its last step (run, or the directory cleanup) has.
InSequence(w) ==
  pc[w] \in {"c_remove", "c_wipe", "c_mkdir", "c_config", "c_workspace",
             "c_soul", "c_tools", "c_net", "c_net_create", "c_run",
             "d_remove", "d_cleanup"}

\* C2: for any tenant, no two Create/Delete executions are both between
\* their first step (inspect) and their last step at the same time.
C2_MutualExclusion ==
  \A w1, w2 \in Workers :
    (w1 # w2 /\ InSequence(w1) /\ InSequence(w2)) => Tenant(w1) # Tenant(w2)

TreeOf(req) ==
  [dir |-> TRUE, config_dir |-> TRUE, config |-> File(_build_config(req)),
   workspace_dir |-> TRUE, soul |-> File(SoulText(req)),
   tools |-> File(ToolsText(req)), session |-> FALSE]

\* The tree holds the config and both workspace documents of one request.
Complete(i) ==
  \E r \in Buildable(i) :
    /\ fs[i].config = File(_build_config(r))
    /\ fs[i].soul = File(SoulText(r))
    /\ fs[i].tools = File(ToolsText(r))

Quiescent(i) ==
  \A w \in Workers : (Creating(w, i) \/ Deleting(w, i)) => Finished(w)

\* C4: for every tenant the host directory is either fully absent or holds
\* the config and workspace documents of a successful Create, whenever no
\* call for the tenant is in progress and whenever its container is running.
C4_AbsentOrComplete ==
  \A i \in Ids :
    (Quiescent(i) \/ Running(i)) => (fs[i] = EmptyTree \/ Complete(i))

\* The runtime calls on the tenant's container that the handler has issued.
ContainerCalls(w) ==
  SelectSeq(trace[w], LAMBDA x : x \in {"remove", "run"})

C6_OnlyLatestRequest ==
  [][\A w \in Workers :
       (call[w].op = "create" /\ pc[w] # "done" /\ pc'[w] = "done")
       => fs'[Tenant(w)] = TreeOf(call[w].req)]_vars

\* What pydantic lets through although the request is malformed.
Malformed(req) ==
  req.body.business_name = "" \/ ~IntParses(req.body.telegram_user_id)

SideEffects(w) == SelectSeq(trace[w], LAMBDA x : x # "found")

\* C7: a Create call with a malformed request has no side effect.
C7_RejectedBeforeSideEffects ==
  \A w \in Workers :
    (call[w].op = "create" /\ Malformed(call[w].req)) => SideEffects(w) = <<>>

FileCalls(w) ==
  SelectSeq(trace[w], LAMBDA x : x \notin {"found", "remove", "rmtree",
                                           "network_create", "run"})

\* C8: a Create that fails at any step before the run never invokes run, and
\* a run is only ever invoked last, after every write has gone through.
C8_NoRunOnFailure ==
  \A w \in Workers :
    call[w].op = "create" =>
      /\ (pc[w] = "failed" /\ failedAt[w].step # "run")
         => (~Has(trace[w], "run") /\ result[w] = "none")
      /\ Has(trace[w], "run")
         => /\ trace[w][Len(trace[w])] = "run"
            /\ FileCalls(w) = <<"mkdir", "write_config", "mkdir_workspace",
                                "write_soul", "write_tools">>

\* A Create found and removed a container, then failed in a write.
C8_Witness ==
  \E w \in Workers :
    /\ call[w].op = "create" /\ pc[w] = "failed"
    /\ failedAt[w].step \in {"write_config", "write_soul", "write_tools"}
    /\ Has(trace[w], "remove")

\* C9: the moment a config or workspace write of a Create fails, the tenant
\* has no container.
C9_AbsentAfterWriteFailure ==
  [][\A w \in Workers :
       ( /\ call[w].op = "create" /\ pc[w] # "failed" /\ pc'[w] = "failed"
         /\ failedAt'[w].step \in {"write_config", "write_soul", "write_tools"} )
       => Named(_container_name(Tenant(w)))' = {}]_vars

\* C10: a Delete whose remove went through leaves no container of the name
\* and returns "removed"; without cleanup no step of it changes any host
\* directory; with cleanup the tenant's directory is gone when it returns.
C10_DeleteRemovesAndCleansUp ==
  /\ [](\A w \in Workers :
          (call[w].op = "delete" /\ pc[w] = "done")
          => /\ result[w] = "removed"
             /\ trace[w] = IF call[w].cleanup /\ Has(trace[w], "rmtree")
                             THEN <<"found", "remove", "rmtree">>
                             ELSE <<"found", "remove">>)
  /\ [][\A w \in Workers :
          /\ ( /\ call[w].op = "delete" /\ pc[w] = "d_remove"
               /\ pc'[w] \in {"done", "d_cleanup"} )
             => Named(_container_name(Tenant(w)))' = {}
          /\ ( /\ call[w].op = "delete" /\ ~call[w].cleanup
               /\ pc'[w] # pc[w] )
             => fs' = fs
          /\ ( /\ call[w].op = "delete" /\ pc[w] = "d_cleanup"
               /\ pc'[w] = "done" )
             => fs'[Tenant(w)] = EmptyTree]_vars

\* A Delete with cleanup removed the container and then the written tree.
C10_Witness ==
  \E w \in Workers :
    /\ call[w].op = "delete" /\ call[w].cleanup /\ pc[w] = "done"
    /\ trace[w] = <<"found", "remove", "rmtree">>
    /\ fs[Tenant(w)] = EmptyTree

\* C11: a Delete whose inspect finds no container answers not-found, with
\* or without cleanup, and changes neither the runtime nor any host
\* directory (a directory left by an earlier Delete stays as it is).
C11_DeleteAbsentIsNoOp ==
  /\ [][\A w \in Workers :
          ( /\ call[w].op = "delete" /\ pc[w] = "d_get" /\ pc'[w] # "d_get"
            /\ NameFree(_container_name(call[w].req.business_id)) )
          => /\ \/ pc'[w] = "not_found"
                \/ pc'[w] = "failed" /\ failedAt'[w].exc = "APIError"
             /\ result'[w] = "none"
             /\ UNCHANGED <<containers, fs, network>>]_vars
  /\ [](\A w \in Workers :
          (call[w].op = "delete" /\ pc[w] = "not_found")
          => (result[w] = "none" /\ ~Has(trace[w], "rmtree")))

\* A Delete with cleanup found no container and left the directory that an
\* earlier Delete without cleanup had kept.
C11_Witness ==
  \E w \in Workers :
    /\ call[w].op = "delete" /\ call[w].cleanup /\ pc[w] = "not_found"
    /\ trace[w] = <<>>
    /\ fs[Tenant(w)].dir /\ fs[Tenant(w)].tools.kind = "file"

\* C12: when two tenants' Creates both find the network absent and both
\* try to create it, the refusal of the second creation is benign: no
\* Create fails with the engine's duplicate-network conflict.
C12_DuplicateNetworkBenign ==
  \A w \in Workers :
    (call[w].op = "create" /\ pc[w] = "failed")
    => ~(failedAt[w].step = "network_create" /\ failedAt[w].exc = "Conflict")

\* C13: a health response has healthy = TRUE exactly when the container
\* exists with status "running"; any other status is echoed with healthy =
\* FALSE; an absent container gives status "not_found", healthy = FALSE, in
\* a normal response (the only error left is the engine's own failure).
C13_HealthMapping ==
  /\ [](\A w \in Workers :
          (call[w].op = "health" /\ pc[w] = "done")
          => (healthy[w] <=> result[w] = "running"))
  /\ [][\A w \in Workers :
          (pc[w] = "h_get" /\ pc'[w] # "h_get")
          => IF NameFree(_container_name(Tenant(w)))
               THEN \/ /\ pc'[w] = "done"
                       /\ result'[w] = "not_found"
                       /\ ~healthy'[w]
                    \/ /\ pc'[w] = "failed"
                       /\ failedAt'[w].exc = "APIError"
               ELSE \/ /\ pc'[w] = "done"
                       /\ \E c \in Named(_container_name(Tenant(w))) :
                            /\ result'[w] = c.status
                            /\ healthy'[w] <=> c.status = "running"
                    \/ /\ pc'[w] = "failed"
                       /\ failedAt'[w].exc = "APIError"]_vars

\* One health response reported "running" as healthy; after the gateway
\* exited, another echoed "exited" as not healthy.
C13_Witness ==
  \E w, v \in Workers :
    /\ call[w].op = "health" /\ pc[w] = "done"
    /\ result[w] = "running" /\ healthy[w]
    /\ call[v].op = "health" /\ pc[v] = "done"
    /\ result[v] = "exited" /\ ~healthy[v]

Reading(w) == call[w].op \in {"health", "logs"}

\* C14: no step of a Health or Logs call changes the runtime's containers,
\* its network or any host directory, or any variable of another call; and
\* a Create or Delete in progress always has its next step enabled,
\* whatever Health and Logs calls are in progress.
C14_ReadOnly ==
  /\ [][\A w \in Workers :
          ((Reading(w) \/ Reading(w)') /\ pc'[w] # pc[w])
          => /\ UNCHANGED <<containers, fs, network>>
             /\ \A v \in Workers \ {w} :
                  /\ pc'[v] = pc[v] /\ call'[v] = call[v]
                  /\ trace'[v] = trace[v] /\ failedAt'[v] = failedAt[v]
                  /\ result'[v] = result[v]]_vars
  /\ [](\A w \in Workers :
          ((Creating(w, Tenant(w)) \/ Deleting(w, Tenant(w))) /\ ~Finished(w))
          => ENABLED (CreateStep(w) \/ DeleteStep(w)))

\* A Logs call read the container's output while a Create for the same
\* tenant stood between its inspect and its removal.
C14_Witness ==
  \E w, v \in Workers :
    /\ call[w].op = "logs" /\ pc[w] = "done" /\ result[w] = "logs"
    /\ call[v].op = "create" /\ pc[v] = "c_remove"
    /\ Tenant(v) = Tenant(w)

\* C20: a container that is gone when the call after the inspect reaches
\* the runtime is treated as absent: Create goes on to wipe and rebuild,
\* Delete answers not-found and leaves the host directory alone, Logs
\* answers not-found (the only other exit is the engine's own failure).
C20_VanishedIsAbsent ==
  /\ [][\A w \in Workers :
          ( /\ pc[w] \in {"c_remove", "d_remove", "l_read"}
            /\ pc'[w] # pc[w]
            /\ NameFree(_container_name(Tenant(w))) )
          => \/ /\ pc'[w] = "failed"
                /\ failedAt'[w].exc = "APIError"
                /\ UNCHANGED <<containers, fs, network>>
             \/ /\ pc[w] = "c_remove"
                /\ pc'[w] = "c_wipe"
                /\ UNCHANGED <<containers, fs, network>>
             \/ /\ pc[w] \in {"d_remove", "l_read"}
                /\ pc'[w] = "not_found"
                /\ result'[w] = "none"
                /\ UNCHANGED <<containers, fs, network>>]_vars
  /\ [](\A w \in Workers :
          (pc[w] = "not_found" /\ Has(trace[w], "found"))
          => ~Has(trace[w], "rmtree"))
  /\ [](\A w \in Workers :
          (call[w].op = "create" /\ ~Finished(w)) => ENABLED CreateStep(w))

\* The container a Delete with cleanup had found was removed by a Create
\* before the Delete's own removal: the Delete answered 404 with the
\* directory still in place, and the Create has its container running.
C20_Witness ==
  \E w, v \in Workers :
    /\ call[w].op = "delete" /\ call[w].cleanup
    /\ pc[w] = "not_found" /\ trace[w] = <<"found", "remove">>
    /\ fs[Tenant(w)].dir
    /\ call[v].op = "create" /\ pc[v] = "done"
    /\ Has(trace[v], "found")
    /\ \E c \in containers : c.by = v /\ c.status = "running"

\* C15: a Create that is retried after an attempt failed by an outage, at
\* whatever step, and that meets no outage itself, never stops short and
\* ends with the tenant's container running and the host directory holding
\* exactly the tree of the retried request.
C15_RetrySucceeds ==
  /\ [][\A w \in Workers :
          (IsRetry(w) /\ Busy(w) /\ pc'[w] \in {"done", "failed"})
          => /\ pc'[w] = "done"
             /\ result'[w] = "running"
             /\ \E c \in containers' :
                  /\ c.name = _container_name(Tenant(w))
                  /\ c.status = "running"
             /\ fs'[Tenant(w)] = TreeOf(call[w].req)]_vars
  /\ [](\A w \in Workers :
          (IsRetry(w) /\ Busy(w)) => ENABLED (CreateStep(w) /\ NoOutage(w)))

\* An attempt failed while writing TOOLS.md, after it had removed the
\* running container and rewritten the config; the retry of the same
\* request has its container running.
C15_Witness ==
  \E w, v \in Workers :
    /\ FailedCreate(v) /\ failedAt[v].step = "write_tools"
    /\ Has(trace[v], "remove")
    /\ IsRetry(w) /\ pc[w] = "done"
    /\ Named(_container_name(Tenant(w))) # {}

\* The step at which a Create that found no prior container returns.
FreshCreateReturns(w) ==
  /\ call[w].op = "create"
  /\ pc[w] = "c_run" /\ pc'[w] = "done"
  /\ ~Has(trace[w], "found")

\* What every successful fresh Create returns and has written, apart from
\* the allowlist.
ReturnedAndWritten(w) ==
  /\ result'[w] = "running"
  /\ \E c \in containers' :
       /\ c.name = <<"openclaw-client-">> \o Str(call[w].req.business_id)
       /\ c.by = w /\ c.status = "running"
  /\ fs'[Tenant(w)].soul.kind = "file"
  /\ fs'[Tenant(w)].soul.text.shop = call[w].req.body.business_name
  /\ fs'[Tenant(w)].tools.kind = "file"
  /\ fs'[Tenant(w)].tools.text.key = call[w].req.body.api_key
  /\ call[w].req.body.api_key \notin
       { fs'[Tenant(w)].soul.text.shop, fs'[Tenant(w)].soul.text.only_discuss }

StepTenant(w) ==
  IF call[w].op = "none" THEN call'[w].req.business_id
  ELSE call[w].req.business_id

\* C17: no step of a Create or Delete for tenant A removes, replaces or
\* starts a container of another tenant B or changes B's host directory;
\* and a Create or Delete can start on an idle worker, and take its next
\* step, whatever calls for other tenants are in progress.
C17_TenantsIndependent ==
  /\ [][\A w \in Workers :
          pc'[w] # pc[w]
          => \A b \in TenantIds \ {StepTenant(w)} :
               /\ fs'[b] = fs[b]
               /\ { c \in containers' : c.name = _container_name(b) }
                    = { c \in containers : c.name = _container_name(b) }]_vars
  /\ [](\A w \in Workers :
          /\ (Busy(w) /\ call[w].op = "create") => ENABLED CreateStep(w)
          /\ (Busy(w) /\ call[w].op = "delete") => ENABLED DeleteStep(w)
          /\ pc[w] = "idle"
             => \A i \in TenantIds :
                  /\ ENABLED StartDelete(w, i, TRUE)
                  /\ \A req \in TenantRequests :
                       req.business_id = i => ENABLED StartCreate(w, req))

\* One tenant was recreated (its old container removed, its directory
\* wiped and rebuilt) while another tenant's Delete stood between its
\* inspect and its removal, that tenant's container still running over its
\* own complete tree.
C17_Witness ==
  \E w, v \in Workers :
    /\ call[w].op = "create" /\ pc[w] = "done"
    /\ Has(trace[w], "remove") /\ Has(trace[w], "rmtree")
    /\ call[v].op = "delete" /\ pc[v] = "d_remove"
    /\ Tenant(v) # Tenant(w)
    /\ Running(Tenant(v))
    /\ fs[Tenant(v)] = TreeOf(CHOOSE r \in TenantRequests :
                                r.business_id = Tenant(v))

\* C18: two distinct business ids never have the same container name (and
\* so never the same host directory); and the name of an id is the same on
\* every call: however often a tenant is created and deleted, every
\* container is the container of exactly one id, no id has two containers,
\* and a container's host directory is the directory of its own id.
C18_NamingStableInjective ==
  /\ \A a, b \in NameIds :
       a # b => _container_name(a) # _container_name(b)
  /\ \A c \in containers :
       Cardinality({ i \in NameIds : c.name = _container_name(i) }) = 1
  /\ \A i \in NameIds :
       /\ Cardinality(Named(_container_name(i))) <= 1
       /\ ~NameFree(_container_name(i)) => fs[i].dir
  /\ \A w \in Workers :
       (call[w].op = "create" /\ pc[w] = "done")
       => \E c \in containers :
            c.by = w /\ c.name = <<"openclaw-client-">> \o Str(Tenant(w))
  /\ \A w \in Workers :
       (call[w].op = "delete" /\ pc[w] = "done")
       => /\ \A c \in containers :
               c.name # <<"openclaw-client-">> \o Str(Tenant(w))
          /\ call[w].cleanup => ~fs[Tenant(w)].dir

\* Tenant 11 was created a second time while tenant 1 has its container:
\* the second Create found and removed the container of 11 under the same
\* name, and both tenants have a container.
C18_Witness ==
  \E w \in Workers :
    /\ call[w].op = "create" /\ pc[w] = "done" /\ Tenant(w) = 11
    /\ Has(trace[w], "found") /\ Has(trace[w], "remove")
    /\ ~NameFree(_container_name(1)) /\ ~NameFree(_container_name(11))
    /\ Cardinality(containers) = 2

\* C19: the lookup of an existing network leads to the run with no create;
\* a lookup that reports not-found leads to one create, after which the
\* call runs or fails, never looking up or creating again; a lookup error
\* aborts the Create before any run; and a call that is past the ensure,
\* and every container the manager has run, has the network in existence.
C19_EnsureNetwork ==
  /\ [][\A w \in Workers :
          (pc[w] = "c_net" /\ pc'[w] # "c_net")
          => /\ UNCHANGED <<network, trace>>
             /\ \/ network /\ pc'[w] = "c_run"
                \/ ~network /\ pc'[w] = "c_net_create"
                \/ /\ pc'[w] = "failed"
                   /\ failedAt'[w] = [step |-> "network_get", exc |-> "APIError"]]_vars
  /\ [][\A w \in Workers :
          (pc[w] = "c_net_create" /\ pc'[w] # "c_net_create")
          => \/ /\ ~network /\ network'
                /\ pc'[w] = "c_run"
                /\ trace'[w] = Append(trace[w], "network_create")
             \/ /\ pc'[w] = "failed"
                /\ failedAt'[w].step = "network_create"
                /\ UNCHANGED <<network, trace>>]_vars
  /\ [](\A w \in Workers :
          /\ pc[w] = "c_run" => network
          /\ Has(trace[w], "run") => network
          /\ Len(SelectSeq(trace[w], LAMBDA x : x = "network_create")) <= 1
          /\ (pc[w] = "failed" /\ failedAt[w].step \in {"network_get", "network_create"})
             => ~Has(trace[w], "run"))
  /\ [](containers # {} => network)

\* One Create found no network and created it; another Create found that
\* network and created none; both have run their containers.
C19_Witness ==
  \E w, v \in Workers :
    /\ call[w].op = "create" /\ pc[w] = "done"
    /\ Has(trace[w], "network_create")
    /\ call[v].op = "create" /\ pc[v] = "done"
    /\ ~Has(trace[v], "network_create") /\ Has(trace[v], "run")
    /\ network /\ Cardinality(containers) = 2

====
